---- MODULE Spec2Model ----
(***************************************************************************)
(* Model of streamlit_app.py: the retrying transport                       *)
(* (_make_request_with_retry), the two-step workflow (lookup_lead,         *)
(* switch_profile, process_lead) and the batch loop (process_csv).         *)
(*                                                                         *)
(* Python values are tagged records: a str is [t |-> "str", v |-> chars]   *)
(* with chars a sequence of one-character strings, NaN (the value pandas'  *)
(* read_csv gives an empty cell) is [t |-> "nan"], JSON null, lists and    *)
(* dicts are tagged likewise.  Messages built by the code are TLA+         *)
(* strings.  The 'First Name' / 'Last Name' columns are copied through     *)
(* unchanged by the code and are left out, and so is the status text that  *)
(* is built from them.  An exception that leaves process_csv is the state  *)
(* pc = "aborted".                                                         *)
(***************************************************************************)
EXTENDS Integers, Sequences, FiniteSets, TLC

\* ---------------------------------------------------------------- constants
MAX_RETRIES == 3
RETRY_DELAY == 1
HeaderOffset == 2
ErrorTextCap == 200
SnippetCap == 100

\* ------------------------------------------------------------------- bounds
MaxRows == 2

\* ------------------------------------------------------------ python values
PyStr(chars) == [t |-> "str", v |-> chars]
NaN == [t |-> "nan"]
JNull == [t |-> "null"]
JList(items) == [t |-> "list", items |-> items]
JDict(kv) == [t |-> "dict", kv |-> kv]
EmptyStr == PyStr(<<>>)

\* bool(x) as Python evaluates it in `if x:` / `not x`
Truthy(x) ==
  CASE x.t = "str" -> x.v # <<>>
    [] x.t = "nan" -> TRUE
    [] x.t = "null" -> FALSE
    [] x.t = "list" -> x.items # <<>>
    [] x.t = "dict" -> x.kv # <<>>

RECURSIVE Join(_)
Join(chars) == IF chars = <<>> THEN "" ELSE Head(chars) \o Join(Tail(chars))

\* s[:n]
Take(s, n) == SubSeq(s, 1, IF Len(s) < n THEN Len(s) ELSE n)

Digits == {"0", "1", "2", "3", "4", "5", "6", "7", "8", "9"}
isdigit(c) == c \in Digits
Whitespace == {" ", "\t", "\n", "\r"}

RECURSIVE lstrip(_)
lstrip(s) == IF s # <<>> /\ Head(s) \in Whitespace THEN lstrip(Tail(s)) ELSE s
RECURSIVE rstrip(_)
rstrip(s) ==
  IF s # <<>> /\ s[Len(s)] \in Whitespace THEN rstrip(SubSeq(s, 1, Len(s) - 1)) ELSE s
\* str.strip()
strip(s) == rstrip(lstrip(s))
\* only str has .strip(); on a float (NaN) the attribute lookup raises
HasStrip(x) == x.t = "str"

\* str(x) for the cell values a column can hold
str(x) == IF x.t = "nan" THEN <<"n", "a", "n">> ELSE x.v

\* a cleaning that forgets the filter
CleanPhoneUnfiltered(cell) == str(cell)

\* ''.join(filter(str.isdigit, str(cell)))
CleanPhone(cell) == SelectSeq(str(cell), isdigit)

\* repr of a str: quotes around the characters
ReprStr(chars) == <<"'">> \o chars \o <<"'">>
ReprScalar(x) ==
  CASE x.t = "str" -> ReprStr(x.v)
    [] x.t = "null" -> <<"N", "o", "n", "e">>
    [] x.t = "nan" -> <<"n", "a", "n">>
RECURSIVE ReprPairs(_)
ReprPairs(kv) ==
  IF kv = <<>> THEN <<>>
  ELSE ReprStr(kv[1][1]) \o <<":", " ">> \o ReprScalar(kv[1][2])
       \o (IF Len(kv) > 1 THEN <<",", " ">> ELSE <<>>) \o ReprPairs(Tail(kv))
RECURSIVE ReprItems(_)
ReprItems(items) ==
  IF items = <<>> THEN <<>>
  ELSE ReprScalar(items[1])
       \o (IF Len(items) > 1 THEN <<",", " ">> ELSE <<>>) \o ReprItems(Tail(items))
\* str(data) of a parsed JSON body
ReprData(x) ==
  CASE x.t = "dict" -> <<"{">> \o ReprPairs(x.kv) \o <<"}">>
    [] x.t = "list" -> <<"[">> \o ReprItems(x.items) \o <<"]">>
    [] OTHER -> ReprScalar(x)

\* only dict has .get(); on a list the attribute lookup raises
HasGet(x) == x.t = "dict"
\* data.get(key, default)
DictGet(x, key, default) ==
  IF \E i \in 1..Len(x.kv) : x.kv[i][1] = key
  THEN x.kv[CHOOSE i \in 1..Len(x.kv) : x.kv[i][1] = key][2]
  ELSE default

\* --------------------------------------------------------------- input rows
\* A column the DataFrame does not have is Missing in every row; row.get
\* then returns its default.
Missing == [t |-> "missing"]
RowGet(row, col, default) == IF row[col] = Missing THEN default ELSE row[col]

MkRow(mobile, profile, move) == [mobile |-> mobile, profile |-> profile, move |-> move]
VIP == PyStr(<<" ", "V", "I", "P", " ">>)
MV == PyStr(<<"M", "V">>)
Blank == PyStr(<<" ">>)
Dashes == PyStr(<<"-", "-", "-">>)
Phone51 == PyStr(<<"(", "5", ")", " ", "1">>)

\* frames with both profile columns
RowsBoth ==
  { MkRow(Dashes, NaN, NaN),
    MkRow(NaN, VIP, NaN),
    MkRow(Phone51, Blank, Blank),
    MkRow(Phone51, NaN, NaN),
    MkRow(Phone51, NaN, MV),
    MkRow(Phone51, Blank, MV) }
\* frames with only the 'Customer Profile - MOVE' column
RowsMove ==
  { MkRow(Dashes, Missing, MV),
    MkRow(Phone51, Missing, Blank),
    MkRow(Phone51, Missing, NaN),
    MkRow(Phone51, Missing, MV) }

\* frames with only the 'Customer Profile' column
RowsProfile ==
  { MkRow(Dashes, Blank, Missing),
    MkRow(Phone51, Blank, Missing),
    MkRow(Phone51, VIP, Missing) }

SeqsUpTo(S, n) == UNION { [1..k -> S] : k \in 0..n }
Frames ==
  SeqsUpTo(RowsBoth, MaxRows) \cup SeqsUpTo(RowsMove, MaxRows)
    \cup SeqsUpTo(RowsProfile, MaxRows)

\* -------------------------------------------------------- upstream service
\* What one HTTP attempt can produce: a response (status, body) or an
\* exception raised by requests.
Unparseable == [t |-> "invalid"]
KeyId == <<"i", "d">>
LeadL1 == PyStr(<<"L", "1">>)
\* bodies the lookup endpoint answers with
LookupBodies ==
  { JDict(<< <<KeyId, LeadL1>> >>),
    JDict(<< <<KeyId, EmptyStr>> >>),
    JDict(<< << <<"o", "k">>, PyStr(<<"n", "o">>) >> >>),
    JDict(<<>>),
    JList(<<LeadL1>>),
    JNull,
    Unparseable }
\* bodies the switchCustomerProfile endpoint answers with
MutateBodies == { JDict(<< << <<"o", "k">>, PyStr(<<"n", "o">>) >> >>), JNull, Unparseable }
ErrText == <<"o", "o", "p", "s">>
Http(status, body) == [kind |-> "http", status |-> status, body |-> body, text |-> ErrText]
OtherStatuses == {401, 404, 429, 500, 204}
Failures ==
  { Http(s, Unparseable) : s \in OtherStatuses }
    \cup { [kind |-> "timeout"], [kind |-> "connection"], [kind |-> "fault"] }
LookupResponses == { Http(200, b) : b \in LookupBodies } \cup Failures
MutateResponses == { Http(200, b) : b \in MutateBodies } \cup Failures
NoResponse == [kind |-> "none"]
\* two attempts were answered alike: same exception, or same status code
SameAnswer(a, b) ==
  /\ a.kind = b.kind
  /\ a.kind = "http" => a.status = b.status

\* --------------------------------------------------------------- transport
Ret(success, data, error) == [success |-> success, data |-> data, error |-> error]
\* a return that sleeps first
ReturnedAfterSleep(r) == [done |-> TRUE, sleep |-> RETRY_DELAY, ret |-> r]

Returned(r) == [done |-> TRUE, sleep |-> 0, ret |-> r]
\* a `continue` that skips time.sleep
RetryableNoSleep(attempt, d, r) ==
  IF attempt < MAX_RETRIES - 1
  THEN [done |-> FALSE, sleep |-> 0, ret |-> r]
  ELSE Returned(r)

\* a retry guard that lets the last attempt `continue` too
RetryableOffByOne(attempt, d, r) ==
  IF attempt < MAX_RETRIES
  THEN [done |-> FALSE, sleep |-> d, ret |-> r]
  ELSE Returned(r)

\* a retry guard that gives up one attempt early
RetryableOneShort(attempt, d, r) ==
  IF attempt < MAX_RETRIES - 2
  THEN [done |-> FALSE, sleep |-> d, ret |-> r]
  ELSE Returned(r)

\* `continue` after time.sleep(d) while attempts remain, else the return
Retryable(attempt, d, r) ==
  IF attempt < MAX_RETRIES - 1
  THEN [done |-> FALSE, sleep |-> d, ret |-> r]
  ELSE Returned(r)

\* a classification that retries 404 like any other error status
ClassifyRetry404(resp, attempt) ==
  CASE resp.kind = "timeout" -> Retryable(attempt, RETRY_DELAY, Ret(FALSE, JNull, "Request timed out"))
    [] resp.kind = "connection" -> Retryable(attempt, RETRY_DELAY, Ret(FALSE, JNull, "Connection error"))
    [] resp.kind = "fault" -> Returned(Ret(FALSE, JNull, "Unexpected error: " \o "boom"))
    [] resp.kind = "http" ->
         CASE resp.status = 200 ->
                IF resp.body = Unparseable
                THEN Returned(Ret(FALSE, JNull, "Invalid JSON response"))
                ELSE Returned(Ret(TRUE, resp.body, ""))
           [] resp.status = 401 -> Returned(Ret(FALSE, JNull, "Unauthorized - check your API key"))
           [] resp.status = 404 -> Retryable(attempt, RETRY_DELAY, Ret(FALSE, JNull, "Lead not found"))
           [] resp.status = 429 -> Retryable(attempt, RETRY_DELAY * 2, Ret(FALSE, JNull, "Rate limited"))
           [] OTHER ->
                Retryable(attempt, RETRY_DELAY,
                          Ret(FALSE, JNull,
                              "HTTP " \o ToString(resp.status) \o ": "
                                \o Join(Take(resp.text, ErrorTextCap))))

\* a classification that takes every 2xx status for success
ClassifyAny2xxOk(resp, attempt) ==
  CASE resp.kind = "timeout" -> Retryable(attempt, RETRY_DELAY, Ret(FALSE, JNull, "Request timed out"))
    [] resp.kind = "connection" -> Retryable(attempt, RETRY_DELAY, Ret(FALSE, JNull, "Connection error"))
    [] resp.kind = "fault" -> Returned(Ret(FALSE, JNull, "Unexpected error: " \o "boom"))
    [] resp.kind = "http" ->
         CASE resp.status \in 200..299 ->
                IF resp.body = Unparseable
                THEN Returned(Ret(FALSE, JNull, "Invalid JSON response"))
                ELSE Returned(Ret(TRUE, resp.body, ""))
           [] resp.status = 401 -> Returned(Ret(FALSE, JNull, "Unauthorized - check your API key"))
           [] resp.status = 404 -> Returned(Ret(FALSE, JNull, "Lead not found"))
           [] resp.status = 429 -> Retryable(attempt, RETRY_DELAY * 2, Ret(FALSE, JNull, "Rate limited"))
           [] OTHER ->
                Retryable(attempt, RETRY_DELAY,
                          Ret(FALSE, JNull,
                              "HTTP " \o ToString(resp.status) \o ": "
                                \o Join(Take(resp.text, ErrorTextCap))))

\* one iteration of the for-loop of _make_request_with_retry on the outcome
\* resp of the HTTP attempt
Classify(resp, attempt) ==
  CASE resp.kind = "timeout" -> Retryable(attempt, RETRY_DELAY, Ret(FALSE, JNull, "Request timed out"))
    [] resp.kind = "connection" -> Retryable(attempt, RETRY_DELAY, Ret(FALSE, JNull, "Connection error"))
    [] resp.kind = "fault" -> Returned(Ret(FALSE, JNull, "Unexpected error: " \o "boom"))
    [] resp.kind = "http" ->
         CASE resp.status = 200 ->
                IF resp.body = Unparseable
                THEN Returned(Ret(FALSE, JNull, "Invalid JSON response"))
                ELSE Returned(Ret(TRUE, resp.body, ""))
           [] resp.status = 401 -> Returned(Ret(FALSE, JNull, "Unauthorized - check your API key"))
           [] resp.status = 404 -> Returned(Ret(FALSE, JNull, "Lead not found"))
           [] resp.status = 429 -> Retryable(attempt, RETRY_DELAY * 2, Ret(FALSE, JNull, "Rate limited"))
           [] OTHER ->
                Retryable(attempt, RETRY_DELAY,
                          Ret(FALSE, JNull,
                              "HTTP " \o ToString(resp.status) \o ": "
                                \o Join(Take(resp.text, ErrorTextCap))))

\* the statement after the for-loop
FallThrough == Ret(FALSE, JNull, "Failed after " \o ToString(MAX_RETRIES) \o " attempts")

\* a loop whose guards never see the attempt counter advance
CallStepNoCount(resp, attempt) == Classify(resp, 0)

\* a loop that gives up once an attempt has failed
CallStepGiveUp(resp, attempt) ==
  IF attempt > 0
  THEN [done |-> TRUE, sleep |-> 0, ret |-> FallThrough]
  ELSE Classify(resp, attempt)

\* the loop step: the attempt's classification, and the loop's exit when
\* range(MAX_RETRIES) is used up by a `continue`
CallStep(resp, attempt) ==
  LET c == Classify(resp, attempt)
  IN  IF c.done THEN c
      ELSE IF attempt + 1 < MAX_RETRIES THEN c
      ELSE [done |-> TRUE, sleep |-> c.sleep, ret |-> FallThrough]

\* ---------------------------------------------------------------- workflow
\* lookup_lead after the transport call returned r
LookupResult(r) ==
  IF r.success /\ Truthy(r.data)
  THEN IF ~HasGet(r.data)
       THEN [raised |-> TRUE, success |-> FALSE, lead_id |-> JNull, error |-> ""]
       ELSE LET lead_id == DictGet(r.data, KeyId, EmptyStr)
            IN  IF Truthy(lead_id)
                THEN [raised |-> FALSE, success |-> TRUE, lead_id |-> lead_id, error |-> ""]
                ELSE [raised |-> FALSE, success |-> FALSE, lead_id |-> JNull,
                      error |-> "No lead ID in response. Response: "
                                  \o Join(Take(ReprData(r.data), SnippetCap))]
  ELSE [raised |-> FALSE, success |-> FALSE, lead_id |-> JNull, error |-> r.error]

\* a switch_profile that drops the transport's verdict
SwitchResultAlwaysOk(r) == <<TRUE, "">>

\* switch_profile after the transport call returned r
SwitchResult(r) == IF r.success THEN <<TRUE, "">> ELSE <<FALSE, r.error>>

\* ------------------------------------------------------------------- state
VARIABLES
  df,               \* the DataFrame: the sequence of input rows
  idx,              \* index of the row the loop is at (0-based)
  pc,               \* "row" | "lookup" | "mutate" | "done" | "aborted"
  attempt,          \* loop variable of _make_request_with_retry
  phone,            \* cleaned phone of the current row
  target_profile,   \* resolved profile of the current row
  lead_id,          \* identifier lookup_lead returned for the current row
  results,
  successful_count,
  failed_count,
  requests,         \* HTTP attempts sent for the current row
  last_resp,        \* what the last HTTP attempt of the current row produced
  run,              \* how many attempts in a row, up to the last one, of the
                    \* current transport call were answered like the last one
  slept,            \* delay time.sleep was called with by the last transport step
  waits,            \* number of time.sleep calls in the current transport call
  progress_log,     \* arguments of progress_bar.progress, in call order
  pauses            \* rows (0-based) after which the inter-row sleep was made

vars == <<df, idx, pc, attempt, phone, target_profile, lead_id, results,
          successful_count, failed_count, requests, last_resp, run,
          slept, waits, progress_log, pauses>>

total_rows == Len(df)
row == df[idx + 1]

\* a loop that stops one row early
AfterRowEarly(i) == IF i + 2 < total_rows THEN "row" ELSE "done"

\* where the for-loop of process_csv goes after the row at index i
AfterRow(i) == IF i + 1 < total_rows THEN "row" ELSE "done"

Outcome(i, ph, profile, lead, status, error) ==
  [RowNumber |-> i + HeaderOffset, Phone |-> ph, TargetProfile |-> profile,
   LeadID |-> lead, Status |-> status, ErrorMessage |-> error]

Init ==
  /\ df \in Frames
  /\ idx = 0
  /\ pc = IF Len(df) = 0 THEN "done" ELSE "row"
  /\ attempt = 0
  /\ phone = <<>>
  /\ target_profile = <<>>
  /\ lead_id = JNull
  /\ results = <<>>
  /\ successful_count = 0
  /\ failed_count = 0
  /\ requests = <<>>
  /\ last_resp = NoResponse
  /\ run = 0
  /\ slept = 0
  /\ waits = 0
  /\ progress_log = <<>>
  /\ pauses = {}

\* -------------------------------------------------------------- validation
RowPhone == CleanPhone(RowGet(row, "mobile", EmptyStr))
Primary == RowGet(row, "profile", EmptyStr)
Secondary == RowGet(row, "move", EmptyStr)
\* the .strip() of line 165 or of line 167 raises AttributeError
StripRaises ==
  IF ~HasStrip(Primary) THEN TRUE
  ELSE IF strip(Primary.v) = <<>> THEN ~HasStrip(Secondary)
  ELSE FALSE
\* target_profile after lines 165-167
ResolveProfile ==
  IF strip(Primary.v) # <<>> THEN strip(Primary.v) ELSE strip(Secondary.v)

RowStart ==
  /\ pc = "row"
  /\ requests' = <<>>
  /\ last_resp' = NoResponse
  /\ run' = 0
  /\ slept' = 0
  /\ waits' = 0
  /\ attempt' = 0
  /\ lead_id' = JNull

\* lines 150-162: no digits in the phone
RejectPhone ==
  /\ RowStart
  /\ RowPhone = <<>>
  /\ failed_count' = failed_count + 1
  /\ results' = Append(results,
                  Outcome(idx, RowGet(row, "mobile", EmptyStr), Primary, EmptyStr,
                          "FAILED", "Invalid phone number"))
  /\ phone' = RowPhone
  /\ idx' = idx + 1
  /\ pc' = AfterRow(idx)
  /\ UNCHANGED <<df, target_profile, successful_count, progress_log, pauses>>

\* lines 165-167 raise: the exception leaves process_csv
ProfileRaises ==
  /\ RowStart
  /\ RowPhone # <<>>
  /\ StripRaises
  /\ phone' = RowPhone
  /\ pc' = "aborted"
  /\ UNCHANGED <<df, idx, target_profile, results, successful_count, failed_count,
                 progress_log, pauses>>

\* lines 169-181: no profile in either column
RejectProfile ==
  /\ RowStart
  /\ RowPhone # <<>>
  /\ ~StripRaises
  /\ ResolveProfile = <<>>
  /\ failed_count' = failed_count + 1
  /\ results' = Append(results,
                  Outcome(idx, PyStr(RowPhone), EmptyStr, EmptyStr,
                          "FAILED", "No target profile specified"))
  /\ phone' = RowPhone
  /\ target_profile' = ResolveProfile
  /\ idx' = idx + 1
  /\ pc' = AfterRow(idx)
  /\ UNCHANGED <<df, successful_count, progress_log, pauses>>

\* lines 183-195: the row is valid, process_lead starts with lookup_lead
StartLead ==
  /\ RowStart
  /\ RowPhone # <<>>
  /\ ~StripRaises
  /\ ResolveProfile # <<>>
  /\ phone' = RowPhone
  /\ target_profile' = ResolveProfile
  /\ pc' = "lookup"
  /\ UNCHANGED <<df, idx, results, successful_count, failed_count, progress_log, pauses>>

\* ------------------------------------------------------------ row epilogue
\* a tally that counts successes only
TallySuccessOnly(success) ==
  /\ successful_count' = IF success THEN successful_count + 1 ELSE successful_count
  /\ UNCHANGED failed_count

\* lines 197-202: the running counts
Tally(success) ==
  IF success
  THEN successful_count' = successful_count + 1 /\ UNCHANGED failed_count
  ELSE failed_count' = failed_count + 1 /\ UNCHANGED successful_count

\* an epilogue that pauses after the last row too
RecordPauseAlways(success, lead, error) ==
  /\ Tally(success)
  /\ results' = Append(results,
                  Outcome(idx, PyStr(phone), PyStr(target_profile), lead,
                          IF success THEN "SUCCESS" ELSE "FAILED", error))
  /\ progress_log' = Append(progress_log, <<idx + 1, total_rows>>)
  /\ pauses' = pauses \cup {idx}
  /\ idx' = idx + 1
  /\ pc' = AfterRow(idx)

\* lines 197-221 with what process_lead returned
Record(success, lead, error) ==
  /\ Tally(success)
  /\ results' = Append(results,
                  Outcome(idx, PyStr(phone), PyStr(target_profile), lead,
                          IF success THEN "SUCCESS" ELSE "FAILED", error))
  /\ progress_log' = Append(progress_log, <<idx + 1, total_rows>>)
  /\ pauses' = IF idx < total_rows - 1 THEN pauses \cup {idx} ELSE pauses
  /\ idx' = idx + 1
  /\ pc' = AfterRow(idx)

\* ------------------------------------------------------------------ lookup
GetRequest == [method |-> "GET", arg |-> PyStr(phone)]
\* a POST addressed with the phone
PostRequestPhone == [method |-> "POST", arg |-> PyStr(phone)]
PostRequest == [method |-> "POST", arg |-> lead_id]

\* the HTTP attempt: req is sent and resp comes back
Attempt(req, resp) ==
  /\ requests' = Append(requests, req)
  /\ last_resp' = resp
  /\ run' = IF attempt > 0 /\ SameAnswer(resp, last_resp) THEN run + 1 ELSE 1

\* a lookup attempt after which the transport sleeps and tries again
LookupRetry ==
  /\ pc = "lookup"
  /\ \E resp \in LookupResponses :
       LET st == CallStep(resp, attempt)
       IN  /\ ~st.done
           /\ slept' = st.sleep
           /\ Attempt(GetRequest, resp)
  /\ attempt' = attempt + 1
  /\ waits' = waits + 1
  /\ UNCHANGED <<df, idx, pc, phone, target_profile, lead_id, results,
                 successful_count, failed_count, progress_log, pauses>>

\* the lookup attempt returns a lead id: process_lead goes on to switch_profile
LookupOk ==
  /\ pc = "lookup"
  /\ \E resp \in LookupResponses :
       LET st == CallStep(resp, attempt)
           lk == LookupResult(st.ret)
       IN  /\ st.done
           /\ ~lk.raised
           /\ lk.success
           /\ lead_id' = lk.lead_id
           /\ slept' = st.sleep
           /\ Attempt(GetRequest, resp)
  /\ attempt' = 0
  /\ waits' = 0
  /\ pc' = "mutate"
  /\ UNCHANGED <<df, idx, phone, target_profile, results, successful_count,
                 failed_count, progress_log, pauses>>

\* the lookup attempt ends the call without a lead id: the row fails
LookupFail ==
  /\ pc = "lookup"
  /\ \E resp \in LookupResponses :
       LET st == CallStep(resp, attempt)
           lk == LookupResult(st.ret)
       IN  /\ st.done
           /\ ~lk.raised
           /\ ~lk.success
           /\ slept' = st.sleep
           /\ Attempt(GetRequest, resp)
           /\ Record(FALSE, EmptyStr, lk.error)
  /\ UNCHANGED <<df, attempt, phone, target_profile, lead_id, waits>>

\* data.get raises in lookup_lead: the exception leaves process_csv
LookupRaises ==
  /\ pc = "lookup"
  /\ \E resp \in LookupResponses :
       LET st == CallStep(resp, attempt)
       IN  /\ st.done
           /\ LookupResult(st.ret).raised
           /\ slept' = st.sleep
           /\ Attempt(GetRequest, resp)
  /\ pc' = "aborted"
  /\ UNCHANGED <<df, idx, attempt, phone, target_profile, lead_id, results,
                 successful_count, failed_count, waits, progress_log, pauses>>

\* ------------------------------------------------------------------ mutate
MutateRetry ==
  /\ pc = "mutate"
  /\ \E resp \in MutateResponses :
       LET st == CallStep(resp, attempt)
       IN  /\ ~st.done
           /\ slept' = st.sleep
           /\ Attempt(PostRequest, resp)
  /\ attempt' = attempt + 1
  /\ waits' = waits + 1
  /\ UNCHANGED <<df, idx, pc, phone, target_profile, lead_id, results,
                 successful_count, failed_count, progress_log, pauses>>

\* the mutate attempt ends the call: process_lead returns, the row is recorded
MutateReturn ==
  /\ pc = "mutate"
  /\ \E resp \in MutateResponses :
       LET st == CallStep(resp, attempt)
           sw == SwitchResult(st.ret)
       IN  /\ st.done
           /\ slept' = st.sleep
           /\ Attempt(PostRequest, resp)
           /\ IF sw[1]
              THEN Record(TRUE, lead_id, "")
              ELSE Record(FALSE, lead_id, sw[2])
  /\ UNCHANGED <<df, attempt, phone, target_profile, lead_id, waits>>

Next ==
  \/ RejectPhone
  \/ ProfileRaises
  \/ RejectProfile
  \/ StartLead
  \/ LookupRetry
  \/ LookupOk
  \/ LookupFail
  \/ LookupRaises
  \/ MutateRetry
  \/ MutateReturn

Spec == Init /\ [][Next]_vars

\* process_csv runs in one thread that is never suspended for good: a
\* requests call returns or raises within REQUEST_TIMEOUT and every sleep ends
FairSpec == Spec /\ WF_vars(Next)

\* =================================================================== claims
Last(s) == s[Len(s)]
\* the step recorded the Outcome of the current row and left the row
Recorded ==
  /\ Len(results') = Len(results) + 1
  /\ SubSeq(results', 1, Len(results)) = results
  /\ Last(results').RowNumber = idx + 2
  /\ idx' = idx + 1
  /\ pc' \in {"row", "done"}
\* the step sent an HTTP attempt
Sent == Len(requests') = Len(requests) + 1
NumPosts(reqs) == Cardinality({k \in 1..Len(reqs) : reqs[k].method = "POST"})
NumGets(reqs) == Cardinality({k \in 1..Len(reqs) : reqs[k].method = "GET"})
NoDigit(cell) == \A k \in 1..Len(str(cell)) : str(cell)[k] \notin Digits
\* an empty cell (NaN after read_csv), a column the frame lacks, or a str of
\* whitespace only
EmptyField(cell) ==
  IF cell = Missing \/ cell = NaN THEN TRUE
  ELSE \A k \in 1..Len(cell.v) : cell.v[k] \in Whitespace
Is(resp, status) == resp.kind = "http" /\ resp.status = status
Parseable200(resp) == Is(resp, 200) /\ resp.body # Unparseable

\* C1: when process_csv returns, results holds exactly one Outcome per input
\* row, the i-th Outcome carrying the row number and the phone of the i-th
\* row; at every moment the Outcomes recorded are those of the rows passed.
OneOutcomePerRowInOrder ==
  /\ Len(results) = idx
  /\ pc = "done" => Len(results) = Len(df)
  /\ \A i \in 1..Len(results) :
       /\ results[i].RowNumber = i + 1
       /\ results[i].Phone \in {df[i].mobile, PyStr(SelectSeq(str(df[i].mobile), isdigit))}

C1Witness ==
  /\ pc = "done"
  /\ Len(df) >= 2
  /\ \E i, j \in 1..Len(results) :
       results[i].Status = "SUCCESS" /\ results[j].Status = "FAILED"

\* C2: successful_count + failed_count is the number of Outcomes recorded,
\* each count is the number of Outcomes of its status, and when process_csv
\* returns the sum is the number of input rows.
CountsMatchOutcomes ==
  /\ successful_count + failed_count = Len(results)
  /\ successful_count = Cardinality({i \in 1..Len(results) : results[i].Status = "SUCCESS"})
  /\ failed_count = Cardinality({i \in 1..Len(results) : results[i].Status = "FAILED"})
  /\ pc = "done" => successful_count + failed_count = Len(df)

C2Witness ==
  /\ pc = "done"
  /\ successful_count >= 1
  /\ failed_count >= 1
  /\ \E i \in 1..Len(results) : results[i].ErrorMessage = "Rate limited"

\* C3: the step taken on a row whose phone has no digit records exactly one
\* Outcome, FAILED with empty lead id and 'Invalid phone number', sends no
\* request and leaves the row, whatever the profile fields hold.
PhoneWithoutDigitsRejected ==
  [][(pc = "row" /\ NoDigit(row.mobile)) =>
       /\ Recorded
       /\ Last(results').Status = "FAILED"
       /\ Last(results').LeadID = EmptyStr
       /\ Last(results').ErrorMessage = "Invalid phone number"
       /\ requests' = <<>>]_vars

C3Witness ==
  \E i \in 1..Len(results) :
    /\ df[i] = MkRow(Dashes, NaN, NaN)
    /\ results[i].ErrorMessage = "Invalid phone number"

\* C4 (as claimed): the step taken on a row with a digit in its phone and
\* both profile fields empty or whitespace-only records exactly one Outcome,
\* FAILED with empty lead id and 'No target profile specified', and sends no
\* request.
MissingProfileRejected ==
  [][(pc = "row" /\ ~NoDigit(row.mobile) /\ EmptyField(row.profile) /\ EmptyField(row.move)) =>
       /\ Recorded
       /\ Last(results').Status = "FAILED"
       /\ Last(results').LeadID = EmptyStr
       /\ Last(results').ErrorMessage = "No target profile specified"
       /\ requests' = <<>>]_vars

\* C5: a first lookup attempt answered 404 ends the row at once: one Outcome,
\* FAILED with empty lead id and 'Lead not found', the GET being the only
\* request of the row.
Lookup404FailsAtOnce ==
  [][(pc = "lookup" /\ attempt = 0 /\ Sent /\ Is(last_resp', 404)) =>
       /\ Recorded
       /\ Last(results').Status = "FAILED"
       /\ Last(results').LeadID = EmptyStr
       /\ Last(results').ErrorMessage = "Lead not found"
       /\ requests' = <<[method |-> "GET", arg |-> PyStr(phone)]>>]_vars

C5Witness ==
  /\ results # <<>>
  /\ Last(results).ErrorMessage = "Lead not found"
  /\ Is(last_resp, 404)
  /\ Len(requests) = 1
  /\ pc \in {"row", "done"}

\* C6: while every attempt of the mutate call so far was answered 429, the
\* call goes on until MAX_RETRIES attempts are made, and then the row is
\* recorded FAILED with 'Rate limited' and the lead id lookup returned.
Mutate429Exhausts ==
  [][(pc = "mutate" /\ Sent /\ Is(last_resp', 429) /\ run' = NumPosts(requests')) =>
       IF NumPosts(requests') < MAX_RETRIES
       THEN pc' = "mutate" /\ results' = results
       ELSE /\ NumPosts(requests') = MAX_RETRIES
            /\ Recorded
            /\ Truthy(lead_id)
            /\ Last(results').LeadID = lead_id
            /\ Last(results').Status = "FAILED"
            /\ Last(results').ErrorMessage = "Rate limited"]_vars

C6Witness ==
  /\ results # <<>>
  /\ Last(results).ErrorMessage = "Rate limited"
  /\ Last(results).LeadID = LeadL1
  /\ Is(last_resp, 429)
  /\ run = MAX_RETRIES
  /\ NumPosts(requests) = MAX_RETRIES

\* C7 (as claimed): whatever answer the upstream gives to a lookup or mutate
\* attempt, the batch is not aborted: the call goes on, the workflow goes on
\* or the row is recorded and the loop moves to the next row.
UpstreamNeverAbortsBatch ==
  [][(pc \in {"lookup", "mutate"} /\ Sent) =>
       /\ pc' # "aborted"
       /\ pc' \in {"row", "done"} => Recorded]_vars

\* C8 (as claimed): every FAILED Outcome carries a non-empty error message.
FailedCarriesMessage ==
  \A i \in 1..Len(results) :
    results[i].Status = "FAILED" => results[i].ErrorMessage # ""

\* C9: a row is recorded SUCCESS exactly when it passed validation, lookup
\* answered 200 with a non-empty identifier and the mutate call ended on a
\* parseable 200; a SUCCESS Outcome carries that identifier and no message,
\* and a row failing in mutate still carries the identifier.
SuccessIffBothCallsSucceed ==
  [][/\ (pc = "lookup" /\ pc' = "mutate") =>
          /\ phone # <<>> /\ target_profile # <<>>
          /\ Parseable200(last_resp')
          /\ last_resp'.body.t = "dict"
          /\ \E k \in 1..Len(last_resp'.body.kv) :
               last_resp'.body.kv[k] = <<KeyId, lead_id'>>
          /\ lead_id'.t = "str" /\ lead_id'.v # <<>>
     /\ pc = "mutate" => lead_id' = lead_id
     /\ Len(results') > Len(results) =>
          /\ Last(results').Status = "SUCCESS"
               <=> (pc = "mutate" /\ Sent /\ Parseable200(last_resp'))
          /\ Last(results').Status = "SUCCESS" =>
               Last(results').LeadID = lead_id /\ Last(results').ErrorMessage = ""
          /\ (pc = "mutate" /\ Last(results').Status = "FAILED") =>
               Last(results').LeadID = lead_id /\ Last(results').LeadID # EmptyStr]_vars

C9Witness ==
  /\ Len(results) >= 2
  /\ \E i \in 1..Len(results) :
       results[i].Status = "SUCCESS" /\ results[i].LeadID = LeadL1
  /\ \E i \in 1..Len(results) :
       results[i].Status = "FAILED" /\ results[i].LeadID = LeadL1

\* C10 (as claimed): a lookup call ending on a parseable 200 whose body holds
\* no identifier, or an empty one, records the row FAILED with empty lead id
\* and the message 'No lead ID in response. Response: ' followed by the first
\* characters of the body; no mutate request follows.
MissingIdentifierReported ==
  [][(/\ pc = "lookup" /\ Sent /\ Parseable200(last_resp')
      /\ last_resp'.body.t = "dict"
      /\ \A k \in 1..Len(last_resp'.body.kv) :
           last_resp'.body.kv[k][1] = KeyId => ~Truthy(last_resp'.body.kv[k][2])) =>
       /\ Recorded
       /\ Last(results').Status = "FAILED"
       /\ Last(results').LeadID = EmptyStr
       /\ Last(results').ErrorMessage =
            "No lead ID in response. Response: "
              \o Join(Take(ReprData(last_resp'.body), SnippetCap))
       /\ NumPosts(requests') = 0]_vars

\* the row passes validation: a digit in the phone and a profile to resolve
PassesValidation(r) == ~NoDigit(r.mobile) /\ ~(EmptyField(r.profile) /\ EmptyField(r.move))
\* the classes of answer _make_request_with_retry tries again on
RetryableAnswer(resp) ==
  \/ resp.kind \in {"timeout", "connection"}
  \/ resp.kind = "http" /\ resp.status \notin {200, 401, 404}
\* the classes of answer that end the call at once
TerminalAnswer(resp) ==
  \/ resp.kind = "fault"
  \/ Is(resp, 401)
  \/ Is(resp, 404)
  \/ Is(resp, 200) /\ resp.body = Unparseable
\* the message the code gives for a failed attempt
MessageFor(resp) ==
  CASE resp.kind = "timeout" -> "Request timed out"
    [] resp.kind = "connection" -> "Connection error"
    [] resp.kind = "fault" -> "Unexpected error: boom"
    [] Is(resp, 200) -> "Invalid JSON response"
    [] Is(resp, 401) -> "Unauthorized - check your API key"
    [] Is(resp, 404) -> "Lead not found"
    [] Is(resp, 429) -> "Rate limited"
    [] OTHER -> "HTTP " \o ToString(resp.status) \o ": oops"
InCall == pc \in {"lookup", "mutate"}
\* attempts of the current transport call, the one just sent included
CallAttempts(reqs) == IF pc = "lookup" THEN NumGets(reqs) ELSE NumPosts(reqs)

\* C11 (as claimed): every row passed, rejected rows included, has had exactly
\* one progress update, made with its own index, so that the last update of
\* a finished batch is total_rows / total_rows.
ProgressAfterEveryRow ==
  /\ Len(progress_log) = Len(results)
  /\ \A i \in 1..Len(progress_log) : progress_log[i] = <<i, Len(df)>>
  /\ (pc = "done" /\ Len(df) > 0) => Last(progress_log) = <<Len(df), Len(df)>>

\* C12 (as claimed): the step that records a row pauses once if the row is
\* not the last one, whether the row went through the workflow or was
\* rejected by validation, and does not pause after the last row.
PauseAfterEveryRow ==
  [][Len(results') = Len(results) + 1 =>
       IF idx < total_rows - 1
       THEN idx \notin pauses /\ pauses' = pauses \cup {idx}
       ELSE pauses' = pauses]_vars

\* C12 (amended): the step that records a row pauses once if the row passed
\* validation and is not the last one; a row rejected by validation, and the
\* last row, are followed by no pause.
PauseAfterProcessedRow ==
  [][Len(results') = Len(results) + 1 =>
       IF idx < total_rows - 1 /\ PassesValidation(row)
       THEN idx \notin pauses /\ pauses' = pauses \cup {idx}
       ELSE pauses' = pauses]_vars

C12Witness ==
  /\ Len(df) = 2
  /\ pc = "done"
  /\ ~PassesValidation(df[1])
  /\ PassesValidation(df[2])
  /\ pauses = {}

\* C13: a transport call never makes more than MAX_RETRIES attempts, a row
\* never more than 2 * MAX_RETRIES.
AttemptsBounded ==
  /\ attempt < MAX_RETRIES
  /\ NumGets(requests) <= MAX_RETRIES
  /\ NumPosts(requests) <= MAX_RETRIES
  /\ Len(requests) <= 2 * MAX_RETRIES
  /\ InCall => attempt = CallAttempts(requests)

C13Witness ==
  /\ Len(requests) = 2 * MAX_RETRIES
  /\ NumGets(requests) = MAX_RETRIES
  /\ pc \in {"row", "done"}

\* C14: an attempt, first or later, answered 401, 404, 200 with an
\* unparseable body or an unexpected fault ends the call at once: the row is
\* recorded FAILED with that answer's message, without a sleep.
TerminalNeverRetried ==
  [][(InCall /\ Sent /\ TerminalAnswer(last_resp')) =>
       /\ Recorded
       /\ Last(results').Status = "FAILED"
       /\ Last(results').ErrorMessage = MessageFor(last_resp')
       /\ slept' = 0
       /\ waits' = waits]_vars

C14Witness ==
  /\ results # <<>>
  /\ pc \in {"row", "done"}
  /\ Is(last_resp, 401)
  /\ NumPosts(requests) = MAX_RETRIES
  /\ Last(results).ErrorMessage = "Unauthorized - check your API key"

\* C15: after k < MAX_RETRIES failed attempts a parseable 200 ends the call
\* with success on attempt k + 1: lookup hands the body's identifier on to
\* mutate, mutate records the row SUCCESS with no error message.
RetryRecovers ==
  [][/\ (pc = "lookup" /\ Sent /\ last_resp' = Http(200, JDict(<< <<KeyId, LeadL1>> >>))) =>
          /\ pc' = "mutate"
          /\ lead_id' = LeadL1
          /\ results' = results
          /\ NumGets(requests') = attempt + 1
     /\ (pc = "mutate" /\ Sent /\ Parseable200(last_resp')) =>
          /\ Recorded
          /\ Last(results').Status = "SUCCESS"
          /\ Last(results').ErrorMessage = ""
          /\ NumPosts(requests') = attempt + 1]_vars

C15Witness ==
  /\ results # <<>>
  /\ pc \in {"row", "done"}
  /\ Last(results).Status = "SUCCESS"
  /\ NumGets(requests) = 2
  /\ NumPosts(requests) = MAX_RETRIES

\* C16: the requests of a row are GETs followed by POSTs; a POST is sent only
\* after lookup returned a non-empty identifier and is addressed with exactly
\* that identifier; a row whose lookup fails sends no POST.
LookupPrecedesMutate ==
  [][/\ (pc = "lookup" /\ Sent) =>
          /\ Last(requests').method = "GET"
          /\ NumPosts(requests') = 0
          /\ pc' = "mutate" =>
               /\ Parseable200(last_resp')
               /\ last_resp'.body.t = "dict"
               /\ <<KeyId, lead_id'>> \in {last_resp'.body.kv[k] : k \in 1..Len(last_resp'.body.kv)}
               /\ lead_id' # EmptyStr
     /\ (pc = "mutate" /\ Sent) =>
          /\ NumGets(requests) >= 1
          /\ Last(requests') = [method |-> "POST", arg |-> lead_id]
          /\ lead_id # EmptyStr /\ lead_id # JNull
          /\ lead_id' = lead_id]_vars

C16Witness ==
  /\ NumGets(requests) = 2
  /\ NumPosts(requests) = 2
  /\ Last(requests).arg = LeadL1

\* C17 (as claimed): process_csv eventually consumes every row and returns.
EventuallyReturnsReport == <>(pc = "done" /\ Len(results) = Len(df))

\* what does hold of every fair run: process_csv ends, by returning or by an
\* exception that leaves it
EventuallyEnds == <>(pc \in {"done", "aborted"})

\* C18: a retryable answer to an attempt that is not the last allowed one is
\* followed by one sleep, of RETRY_DELAY * 2 after 429 and of RETRY_DELAY
\* otherwise; any other attempt is followed by no sleep; a call that has made
\* a attempts has slept a - 1 times.
WaitsFollowAnswer ==
  [][(InCall /\ Sent) =>
       /\ waits = attempt
       /\ IF RetryableAnswer(last_resp') /\ CallAttempts(requests') < MAX_RETRIES
          THEN /\ slept' = IF Is(last_resp', 429) THEN 2 * RETRY_DELAY ELSE RETRY_DELAY
               /\ waits' = waits + 1
               /\ waits' = CallAttempts(requests')
               /\ pc' = pc
          ELSE /\ slept' = 0
               /\ waits = CallAttempts(requests') - 1
               /\ pc' # pc]_vars

C18Witness ==
  /\ pc = "mutate"
  /\ waits = 2
  /\ slept = 2 * RETRY_DELAY
  /\ Is(last_resp, 429)

\* C19: a call whose last allowed attempt gets a retryable answer returns the
\* failure of that attempt, whatever the earlier attempts got; no Outcome
\* carries the message of the statement after the loop.
ExhaustedReportsLastAttempt ==
  [][/\ (InCall /\ Sent /\ RetryableAnswer(last_resp') /\ CallAttempts(requests') = MAX_RETRIES) =>
          /\ Recorded
          /\ Last(results').Status = "FAILED"
          /\ Last(results').ErrorMessage = MessageFor(last_resp')
     /\ \A i \in 1..Len(results') : results'[i].ErrorMessage # "Failed after 3 attempts"]_vars

C19Witness ==
  /\ results # <<>>
  /\ pc \in {"row", "done"}
  /\ NumPosts(requests) = MAX_RETRIES
  /\ run = 1
  /\ last_resp.kind = "timeout"
  /\ Last(results).ErrorMessage = "Request timed out"

\* C20: while every attempt of the mutate call so far was answered with one
\* status outside {200, 401, 404, 429}, a 2xx status such as 204 included,
\* the call goes on until MAX_RETRIES attempts are made, and then the row is
\* recorded FAILED with an 'HTTP <status>' message.
Only200IsSuccess ==
  [][(/\ pc = "mutate" /\ Sent /\ last_resp'.kind = "http"
      /\ last_resp'.status \notin {200, 401, 404, 429}
      /\ run' = NumPosts(requests')) =>
       IF NumPosts(requests') < MAX_RETRIES
       THEN pc' = "mutate" /\ results' = results
       ELSE /\ NumPosts(requests') = MAX_RETRIES
            /\ Recorded
            /\ Last(results').Status = "FAILED"
            /\ Last(results').ErrorMessage = "HTTP " \o ToString(last_resp'.status) \o ": oops"]_vars

C20Witness ==
  /\ results # <<>>
  /\ pc \in {"row", "done"}
  /\ Is(last_resp, 204)
  /\ run = MAX_RETRIES
  /\ NumPosts(requests) = MAX_RETRIES
  /\ Last(results).ErrorMessage = "HTTP 204: oops"

====
